---- MODULE Spec2Model ----
(***************************************************************************)
(* A model of cogent/parse/flowgram.py: the Flowgram object of 454         *)
(* pyrosequencing data, its decoding to a base sequence, its quality and   *)
(* primer trimming, seq_to_flow and the weighted average _ave.             *)
(*                                                                         *)
(* Signals are fixed-point numbers in hundredths (1.50 is 150).  A Python  *)
(* string is a sequence of items: a number token <<fmt, value>>, or one of *)
(* the separators SP and TAB.  A base string is a sequence of one-letter   *)
(* strings.  Flowgram objects live in heap, their signal lists in lists:   *)
(* copy(self) copies the fields, so the copy's flowgram refers to the same *)
(* list as the receiver's until the code assigns it a new one.             *)
(***************************************************************************)
EXTENDS Integers, Sequences, FiniteSets, TLC

VARIABLES heap, lists, last, input

vars == <<heap, lists, last, input>>

(***************************************************************************)
(* Bounds of the model.                                                    *)
(***************************************************************************)
MaxFlows == 2

MaxObjs == 3

MaxPrimer == 2

MaxClip == 1

(***************************************************************************)
(* Program constants.                                                      *)
(***************************************************************************)
\* "%.2f": two decimals, so a signal is an integer number of hundredths
Scale == 100

\* signal < 0.5
Half == 50

\* signal < 1.5, signal > 1.5
OneAndHalf == 150

\* pos % 4
PadCycle == 4

\* flows_since_last == 4
MaxZeroRun == 4

DEFAULT_FLOWORDER == <<"T", "A", "C", "G">>

DEFAULT_KEYSEQ == <<"T", "C", "A", "G">>

(***************************************************************************)
(* Python sequences: slices and indices, negative ones included.           *)
(***************************************************************************)
Min(a, b) == IF a <= b THEN a ELSE b

Max(a, b) == IF a >= b THEN a ELSE b

\* the bound k of a slice of a sequence of length n, clamped as Python does
SliceBound(n, k) == IF k >= 0 THEN Min(k, n) ELSE Max(n + k, 0)

\* s[:k]
PyHead(s, k) == SubSeq(s, 1, SliceBound(Len(s), k))

\* s[k:]
PyTail(s, k) == SubSeq(s, SliceBound(Len(s), k) + 1, Len(s))

\* s[i] raises IndexError unless this holds
PyHasIndex(s, i) == -Len(s) <= i /\ i < Len(s)

\* s[i]
PyAt(s, i) == IF i >= 0 THEN s[i + 1] ELSE s[Len(s) + i + 1]

\* n * [x]
Repeat(x, n) == IF n > 0 THEN [i \in 1..n |-> x] ELSE <<>>

(***************************************************************************)
(* Python strings.                                                         *)
(***************************************************************************)
SP == <<"sp">>

TAB == <<"tab">>

IsWs(c) == c = SP \/ c = TAB

\* sep.join(parts), parts a sequence of strings
RECURSIVE Join(_, _)
Join(sep, parts) ==
    IF parts = <<>> THEN <<>>
    ELSE IF Len(parts) = 1 THEN parts[1]
    ELSE parts[1] \o <<sep>> \o Join(sep, Tail(parts))

\* s.split('\t'): the fields between tabs, empty ones kept
RECURSIVE SplitTab(_)
SplitTab(s) ==
    IF s = <<>> THEN <<<<>>>>
    ELSE LET rest == SplitTab(Tail(s))
         IN  IF Head(s) = TAB THEN <<<<>>>> \o rest
             ELSE <<<<Head(s)>> \o Head(rest)>> \o Tail(rest)

\* s.split(): the maximal runs of non-whitespace
RECURSIVE WsSplit(_)
WsSplit(s) ==
    IF s = <<>> THEN <<>>
    ELSE LET rest == WsSplit(Tail(s))
         IN  IF IsWs(Head(s)) THEN rest
             ELSE IF Len(s) > 1 /\ ~IsWs(s[2])
             THEN <<<<Head(s)>> \o Head(rest)>> \o Tail(rest)
             ELSE <<<<Head(s)>>>> \o rest

\* "%.2f" % a
Fmt2(a) == <<<<"f2", a>>>>

\* str(a) of a float: "1.5" where "%.2f" gives "1.50", the same text for 1.25
StrFloat(a) == IF a % 10 = 0 THEN <<<<"str", a>>>> ELSE Fmt2(a)

\* str(k) of an int
StrInt(k) == <<<<"int", k>>>>

\* float(tok), int(tok) of a number token
NumOf(tok) == tok[1][2]

\* map(f, xs)
Map(F(_), xs) == [i \in 1..Len(xs) |-> F(xs[i])]

\* the value of a numeric header field: a digit string, or a Python int
PyStr(k) == [py |-> "str", n |-> k]

PyInt(k) == [py |-> "int", n |-> k]

(***************************************************************************)
(* Attributes of an object: hasattr, getattr, setattr.                     *)
(***************************************************************************)
NoAttrs == [n \in {} |-> 0]

HasAttr(o, n) == n \in DOMAIN o.attrs

GetAttr(o, n) == o.attrs[n]

SetAttr(o, n, v) == [o EXCEPT !.attrs = (n :> v) @@ @]

\* [int(k) for k in flow_indices.split('\t') if k != '']
ParseIndexes(s) ==
    LET f == SplitTab(s)
        keep == SelectSeq(f, LAMBDA k : k # <<>>)
    IN  Map(NumOf, keep)

(***************************************************************************)
(* Flowgram.__init__ from a list of floats or from a string.               *)
(***************************************************************************)
\* self._flowgram
InitText(flowgram) ==
    IF flowgram.kind = "list" THEN Join(SP, Map(StrFloat, flowgram.val))
    ELSE flowgram.val

\* self.flowgram = map(float, self._flowgram.split())
InitSignal(text) == Map(NumOf, WsSplit(text))

\* header_info is <<>> for None and <<dict>> for a dict. Its entries become
\* attributes of the object; self.header_info keeps a reference to the
\* caller's dict, which a copy shares and no method writes to: the field
\* names what it refers to
Flowgram(flowgram, floworder, header_info, ref) ==
    [flowgram    |-> ref,
     text        |-> InitText(flowgram),
     floworder   |-> floworder,
     attrs       |-> IF header_info = <<>> THEN NoAttrs ELSE header_info[1],
     header_info |-> IF header_info = <<>> THEN "None" ELSE "header_info"]

(***************************************************************************)
(* Outcomes of a call.                                                     *)
(***************************************************************************)
Returned(o, L) == [kind |-> "obj", obj |-> o, lists |-> L]

ReturnedSelf == [kind |-> "self"]

ReturnedNone == [kind |-> "none"]

Raised(e) == [kind |-> "raise", exc |-> e]

(***************************************************************************)
(* get_quality_trimmed_flowgram                                            *)
(***************************************************************************)
\* a variant that splits the text form at tabs only: the text of a flowgram
\* constructed from a list is joined with blanks and would stay whole
TrimmedTextAtTabs(text, clip_right_flowgram) ==
    Join(TAB, PyHead(SplitTab(text), clip_right_flowgram))

\* "\t".join(self._flowgram.split()[:clip_right_flowgram])
TrimmedText(text, clip_right_flowgram) ==
    Join(TAB, PyHead(WsSplit(text), clip_right_flowgram))

QualityUpdate(self, flow_copy, L, clip_right, flow_indices) ==
    LET clip_right_flowgram == PyAt(flow_indices, clip_right - 1)
        L1 == Append(L, PyHead(L[self.flowgram], clip_right_flowgram))
        c1 == [flow_copy EXCEPT
                 !.flowgram = Len(L1),
                 !.text = TrimmedText(self.text, clip_right_flowgram)]
        c2 == IF HasAttr(c1, "Quality Scores")
              THEN SetAttr(c1, "Quality Scores",
                     Join(TAB, PyHead(SplitTab(GetAttr(c1, "Quality Scores")),
                                      clip_right)))
              ELSE c1
        c3 == IF HasAttr(c2, "Flow Indexes")
              THEN SetAttr(c2, "Flow Indexes",
                     Join(TAB, Map(StrInt, PyHead(flow_indices, clip_right))))
              ELSE c2
        c4 == IF HasAttr(c3, "Bases")
              THEN SetAttr(c3, "Bases", PyHead(GetAttr(self, "Bases"), clip_right))
              ELSE c3
        c5 == IF HasAttr(c4, "# of Bases")
              THEN SetAttr(c4, "# of Bases", PyInt(clip_right))
              ELSE c4
    IN  Returned(c5, L1)

get_quality_trimmed_flowgram(self, L) ==
    LET flow_copy == self
    IN  IF HasAttr(self, "Clip Qual Right") /\ HasAttr(self, "Flow Indexes")
        THEN LET clip_right == GetAttr(self, "Clip Qual Right").n
                 flow_indices == ParseIndexes(GetAttr(self, "Flow Indexes"))
             IN  IF PyHasIndex(flow_indices, clip_right - 1)
                 THEN QualityUpdate(self, flow_copy, L, clip_right, flow_indices)
                 ELSE Raised("IndexError")
        ELSE Returned(flow_copy, L)

(***************************************************************************)
(* get_primer_trimmed_flowgram                                             *)
(***************************************************************************)
\* a variant that deletes the first k flows in place (del flowgram[:k]): the
\* list is the one the receiver refers to
DeleteFrom(L, ref, k) == [lists |-> [L EXCEPT ![ref] = PyTail(@, k)], ref |-> ref]

\* flow_copy.flowgram = flow_copy.flowgram[k:]: the slice is a new list, and
\* flow_copy refers to it from now on
SliceFrom(L, ref, k) ==
    [lists |-> Append(L, PyTail(L[ref], k)), ref |-> Len(L) + 1]

\* flow_copy.flowgram[:0] = n * [0.00]
PadLeft(L, ref, n) == [L EXCEPT ![ref] = Repeat(0, n) \o @]

\* flow_copy.flowgram[0] = max(0.00, flow_copy.flowgram[0] - num_lastchar)
CutFirst(L, ref, num_lastchar) ==
    [L EXCEPT ![ref][1] = Max(0, @ - num_lastchar * Scale)]

\* len(primerseq) - len(primerseq.rstrip(lastchar))
NumLastChar(primerseq) ==
    LET n == Len(primerseq)
        lastchar == primerseq[n]
        other == {i \in 1..n : primerseq[i] # lastchar}
    IN  IF other = {} THEN n
        ELSE n - (CHOOSE i \in other : \A j \in other : j <= i)

\* signal = flow_copy.flowgram[pos-1]
BoundaryIndex(pos) == pos - 1

\* a variant with the threshold of the next branch
InconsistentBelowOneAndHalf(signal) == signal < OneAndHalf

\* if (signal < 0.5): the flowgram is not consistent with primerseq
Inconsistent(signal) == signal < Half

\* if (signal < 1.5): cut after flow pos, pad with pos % 4 flows
CutAfter(flow_copy, L, flow_indices, primer_len, pos, pad_num) ==
    LET s == SliceFrom(L, flow_copy.flowgram, pos)
        L1 == PadLeft(s.lists, s.ref, pad_num)
        c1 == [flow_copy EXCEPT !.flowgram = s.ref]
        shifted == Map(LAMBDA a : StrInt(a - pos + pad_num),
                       PyTail(flow_indices, primer_len))
    IN  [obj |-> SetAttr(c1, "Flow Indexes", Join(TAB, shifted)), lists |-> L1]

\* if (signal > 1.5): cut within flow pos, pad with (pos % 4) - 1 flows
CutWithin(flow_copy, L, flow_indices, primerseq, pos, pad_num) ==
    LET primer_len == Len(primerseq)
        s == SliceFrom(L, flow_copy.flowgram, pos - 1)
        L1 == CutFirst(s.lists, s.ref, NumLastChar(primerseq))
        L2 == PadLeft(L1, s.ref, pad_num - 1)
        c1 == [flow_copy EXCEPT !.flowgram = s.ref]
        shifted == Map(LAMBDA a : StrInt(a - (pos - 1) + (pad_num - 1)),
                       PyTail(flow_indices, primer_len))
    IN  [obj |-> SetAttr(c1, "Flow Indexes", Join(TAB, shifted)), lists |-> L2]

\* str(max(0, int(getattr(flow_copy, name)) - primer_len)) when the field is set
ShiftClip(o, name, primer_len) ==
    IF HasAttr(o, name)
    THEN SetAttr(o, name, PyStr(Max(0, GetAttr(o, name).n - primer_len)))
    ELSE o

\* the updates after the cut: the text form, Quality Scores, Bases,
\* # of Bases and the four clip values
PrimerUpdate(self, cut, primer_len) ==
    LET c0 == [cut.obj EXCEPT
                 !.text = Join(TAB, Map(Fmt2, cut.lists[cut.obj.flowgram]))]
        c1 == IF HasAttr(self, "Quality Scores")
              THEN SetAttr(c0, "Quality Scores",
                     Join(TAB, PyTail(SplitTab(GetAttr(c0, "Quality Scores")),
                                      primer_len)))
              ELSE c0
        c2 == IF HasAttr(c1, "Bases")
              THEN SetAttr(c1, "Bases", PyTail(GetAttr(c1, "Bases"), primer_len))
              ELSE c1
        c3 == IF HasAttr(c2, "# of Bases")
              THEN SetAttr(c2, "# of Bases",
                           PyStr(GetAttr(c2, "# of Bases").n - primer_len))
              ELSE c2
        c4 == ShiftClip(c3, "Clip Qual Left", primer_len)
        c5 == ShiftClip(c4, "Clip Qual Right", primer_len)
        c6 == ShiftClip(c5, "Clip Adap Left", primer_len)
        c7 == ShiftClip(c6, "Clip Adap Right", primer_len)
    IN  Returned(c7, cut.lists)

PrimerCut(self, flow_copy, L, flow_indices, primerseq, pos) ==
    LET primer_len == Len(primerseq)
        signal == PyAt(L[flow_copy.flowgram], BoundaryIndex(pos))
        pad_num == pos % PadCycle
        cut == IF signal < OneAndHalf
               THEN CutAfter(flow_copy, L, flow_indices, primer_len, pos, pad_num)
               ELSE IF signal > OneAndHalf
               THEN CutWithin(flow_copy, L, flow_indices, primerseq, pos, pad_num)
               ELSE [obj |-> flow_copy, lists |-> L]
    IN  IF Inconsistent(signal) THEN ReturnedNone
        ELSE PrimerUpdate(self, cut, primer_len)

get_primer_trimmed_flowgram(self, L, primerseq) ==
    IF primerseq = <<>> THEN ReturnedSelf
    ELSE IF ~HasAttr(self, "Flow Indexes") THEN Raised("AttributeError")
    ELSE LET flow_copy == self
             flow_indices == ParseIndexes(GetAttr(self, "Flow Indexes"))
             primer_len == Len(primerseq)
         IN  IF ~PyHasIndex(flow_indices, primer_len - 1)
             THEN Raised("IndexError")
             ELSE LET pos == PyAt(flow_indices, primer_len - 1)
                  IN  IF ~PyHasIndex(L[flow_copy.flowgram], BoundaryIndex(pos))
                      THEN Raised("IndexError")
                      ELSE PrimerCut(self, flow_copy, L, flow_indices,
                                     primerseq, pos)

(***************************************************************************)
(* The records a Flowgram is constructed from.  A record is a signal list  *)
(* over SignalVals and, when it has a header, the fields the base caller   *)
(* wrote for it: one entry of Flow Indexes, Bases and Quality Scores per   *)
(* called base.  Every flow with a signal is called (a flow of 0.40 as one *)
(* low-quality base, written in lower case), so the header of a record     *)
(* with no 0.40 flow is the one the decoding of its signal gives.          *)
(***************************************************************************)
SignalVals == {40, 100, 150, 200}

SignalLists == UNION {[1..n -> SignalVals] : n \in 0..MaxFlows}

\* int(round(n)) of a signal that is not negative: halves round up
Round(n) == (n + Half) \div Scale

Lower(b) == CASE b = "T" -> "t" [] b = "A" -> "a" [] b = "C" -> "c"
              [] b = "G" -> "g" [] OTHER -> "n"

\* the base of flow i (counted from 1) in the cycle floworder
FlowBase(floworder, i) == floworder[((i - 1) % Len(floworder)) + 1]

\* per called base <<flow index, letter>>, flow by flow
RECURSIVE Calls(_, _, _)
Calls(sig, floworder, i) ==
    IF i > Len(sig) THEN <<>>
    ELSE LET k == Round(sig[i])
             b == FlowBase(floworder, i)
             here == IF sig[i] = 0 THEN <<>>
                     ELSE IF k = 0 THEN <<<<i, Lower(b)>>>>
                     ELSE Repeat(<<i, b>>, k)
         IN  here \o Calls(sig, floworder, i + 1)

HeaderStyles == {"clip", "full"}

Header(sig, style, clip) ==
    LET calls == Calls(sig, DEFAULT_FLOWORDER, 1)
        n == Len(calls)
        fi == "Flow Indexes" :>
                Join(TAB, Map(LAMBDA c : StrInt(c[1]), calls))
        cl == "Clip Qual Right" :> PyStr(clip)
        rest == "Quality Scores" :>
                    Join(TAB, Map(StrInt, [i \in 1..n |-> i]))
                @@ "Bases" :> Map(LAMBDA c : c[2], calls)
                @@ "# of Bases" :> PyStr(n)
                @@ "Clip Qual Left" :> PyStr(1)
                @@ "Clip Adap Left" :> PyStr(0)
                @@ "Clip Adap Right" :> PyStr(n)
    IN  IF style = "clip" THEN fi @@ cl ELSE fi @@ cl @@ rest

Headers(sig) ==
    {<<>>} \cup {<<Header(sig, st, c)>> : st \in HeaderStyles, c \in 0..MaxClip}

\* the flowgram argument: a list of floats, or the text of a parsed record
\* (two decimals, tab separated, after a leading blank)
Arguments(sig) ==
    {[kind |-> "list", val |-> sig],
     [kind |-> "str", val |-> <<SP>> \o Join(TAB, Map(Fmt2, sig))]}

\* the text of a record comes with the full header of the record; a list of
\* floats comes with Flow Indexes and Clip Qual Right only; both come with
\* no header at all
StyleOf(kind) == IF kind = "str" THEN "full" ELSE "clip"

HeadersOf(sig, kind) ==
    {<<>>} \cup {<<Header(sig, StyleOf(kind), c)>> : c \in 0..MaxClip}

TrimInputs ==
    UNION {{[flowgram |-> a, header_info |-> h] : h \in HeadersOf(sig, a.kind)} :
           <<sig, a>> \in UNION {{sig} \X Arguments(sig) : sig \in SignalLists}}

\* a primer enters the code by its length and by the length of its last run
\* of one letter: every pair of the two, up to MaxPrimer letters
Primers ==
    UNION {{Repeat("A", n - k) \o Repeat("T", k) : k \in 1..n} : n \in 1..MaxPrimer}

(***************************************************************************)
(* The state: the objects, the signal lists they refer to, the last call   *)
(* that returned with what it returned, and the arguments the first object *)
(* was constructed from.                                                   *)
(***************************************************************************)
NoCall == [op |-> "none", recv |-> 0, arg |-> <<>>, ret |-> "init", ref |-> 0,
           val |-> <<>>]

Construct(in) ==
    /\ input = in
    /\ lists = <<InitSignal(InitText(in.flowgram))>>
    /\ heap = <<Flowgram(in.flowgram, DEFAULT_FLOWORDER, in.header_info, 1)>>
    /\ last = NoCall

Init == \E in \in TrimInputs : Construct(in)

\* A call that returned None or its receiver left heap and lists as they
\* were: the calls that can follow it are the calls that can follow the state
\* it was made in, and they are explored from that state.
Explored == last.ret \in {"none", "self"}

\* the call's effect on the state: a returned copy is a new object, and a
\* call that raises returns nothing and leaves the state as it was
Outcome(op, i, arg, r) ==
    IF r.kind = "raise" THEN UNCHANGED vars
    ELSE /\ heap' = IF r.kind = "obj" THEN Append(heap, r.obj) ELSE heap
         /\ lists' = IF r.kind = "obj" THEN r.lists ELSE lists
         /\ last' = [op |-> op, recv |-> i, arg |-> arg, ret |-> r.kind,
                     ref |-> CASE r.kind = "obj" -> Len(heap) + 1
                               [] r.kind = "self" -> i
                               [] OTHER -> 0,
                     val |-> <<>>]
         /\ UNCHANGED input

QualityTrim(i) ==
    /\ Len(heap) < MaxObjs
    /\ ~Explored
    /\ Outcome("quality", i, <<>>, get_quality_trimmed_flowgram(heap[i], lists))

PrimerTrim(i, primerseq) ==
    /\ Len(heap) < MaxObjs
    /\ ~Explored
    /\ Outcome("primer", i, primerseq,
               get_primer_trimmed_flowgram(heap[i], lists, primerseq))

Next ==
    \/ \E i \in DOMAIN heap : QualityTrim(i)
    \/ \E i \in DOMAIN heap : \E p \in Primers \cup {<<>>} : PrimerTrim(i, p)

Spec == Init /\ [][Next]_vars

(***************************************************************************)
(* to_sequence, hasProperKey, toFasta, cmp_seq_to_string                   *)
(***************************************************************************)
\* the loop of to_sequence over self.flowgram from flow i on: key() is the
\* base of the flow, and the fourth flow in a row without a base gives an N
RECURSIVE Translate(_, _, _, _)
Translate(flow, floworder, i, flows_since_last) ==
    IF i > Len(flow) THEN <<>>
    ELSE LET signal == Round(flow[i])
         IN  IF signal > 0
             THEN Repeat(FlowBase(floworder, i), signal)
                  \o Translate(flow, floworder, i + 1, 0)
             ELSE IF flows_since_last + 1 = MaxZeroRun
             THEN <<"N">> \o Translate(flow, floworder, i + 1, 0)
             ELSE Translate(flow, floworder, i + 1, flows_since_last + 1)

LowQuality == {"a", "c", "g", "t", "n"}

\* seq.rstrip("acgtn")
RECURSIVE RStrip(_)
RStrip(seq) ==
    IF seq # <<>> /\ seq[Len(seq)] \in LowQuality
    THEN RStrip(SubSeq(seq, 1, Len(seq) - 1))
    ELSE seq

\* seq.lstrip("actgn")
RECURSIVE LStrip(_)
LStrip(seq) ==
    IF seq # <<>> /\ seq[1] \in LowQuality THEN LStrip(Tail(seq)) ELSE seq

\* self.Bases = seq: the result is cached for next time
CacheBases(self, seq) == SetAttr(self, "Bases", seq)

\* the receiver after the call, and the sequence returned
to_sequence(self, L, Bases, truncate) ==
    LET stored == Bases /\ HasAttr(self, "Bases")
        seq == IF stored THEN GetAttr(self, "Bases")
               ELSE Translate(L[self.flowgram], self.floworder, 1, 0)
    IN  [self |-> IF stored THEN self ELSE CacheBases(self, seq),
         ret  |-> IF truncate THEN LStrip(RStrip(seq)) ELSE seq]

hasProperKey(self, L, keyseq) ==
    LET r == to_sequence(self, L, FALSE, FALSE)
    IN  [self |-> r.self, ret |-> PyHead(r.ret, Len(keyseq)) = keyseq]

\* the sequence handed to the FASTA writer
toFasta(self, L) == to_sequence(self, L, TRUE, TRUE)

cmp_seq_to_string(self, L, other) ==
    IF HasAttr(self, "Bases") /\ GetAttr(self, "Bases") = other
    THEN [self |-> self, ret |-> TRUE]
    ELSE LET r == to_sequence(self, L, TRUE, TRUE)
         IN  [self |-> r.self, ret |-> r.ret = other]

\* a call that returns a sequence (kind "seq") or a truth value (kind
\* "bool"), and may have cached Bases in its receiver
Answer(op, i, arg, kind, r) ==
    /\ heap' = [heap EXCEPT ![i] = r.self]
    /\ last' = [op |-> op, recv |-> i, arg |-> arg, ret |-> kind, ref |-> 0,
                val |-> IF kind = "bool" THEN <<r.ret>> ELSE r.ret]
    /\ UNCHANGED <<lists, input>>

ToSequence(i, Bases, truncate) ==
    Answer("to_sequence", i, <<Bases, truncate>>, "seq",
           to_sequence(heap[i], lists, Bases, truncate))

HasProperKey(i) ==
    Answer("hasProperKey", i, DEFAULT_KEYSEQ, "bool",
           hasProperKey(heap[i], lists, DEFAULT_KEYSEQ))

ToFasta(i) == Answer("toFasta", i, <<>>, "seq", toFasta(heap[i], lists))

CmpSeqToString(i, other) ==
    Answer("cmp_seq_to_string", i, other, "bool",
           cmp_seq_to_string(heap[i], lists, other))

(***************************************************************************)
(* The decoding calls on records of up to MaxDecodeFlows flows, with and   *)
(* without a supplied Bases field, and the quality trim of their receiver. *)
(***************************************************************************)
MaxDecodeFlows == 4

DecodeVals == {0, 40, 200}

DecodeInputs ==
    UNION {{[flowgram |-> [kind |-> "list", val |-> sig], header_info |-> h] :
               h \in Headers(sig)} :
           sig \in UNION {[1..n -> DecodeVals] : n \in 0..MaxDecodeFlows}}

InitDecode == \E in \in DecodeInputs : Construct(in)

NextDecode ==
    \/ \E i \in DOMAIN heap : \E b \in BOOLEAN, t \in BOOLEAN : ToSequence(i, b, t)
    \/ \E i \in DOMAIN heap : HasProperKey(i)
    \/ \E i \in DOMAIN heap : ToFasta(i)
    \/ \E i \in DOMAIN heap :
          \E other \in {DEFAULT_KEYSEQ, <<"T">>} : CmpSeqToString(i, other)
    \/ \E i \in DOMAIN heap : QualityTrim(i)

SpecDecode == InitDecode /\ [][NextDecode]_vars

(***************************************************************************)
(* The trims on records of LongFlows flows, some of them without a signal: *)
(* a primer can end at the fourth flow.                                    *)
(***************************************************************************)
LongFlows == 5

LongVals == {0, 100, 200}

LongInputs ==
    UNION {{[flowgram |-> a, header_info |-> <<Header(sig, "full", c)>>] :
               a \in Arguments(sig), c \in 0..MaxClip} :
           sig \in [1..LongFlows -> LongVals]}

InitLong == \E in \in LongInputs : Construct(in)

SpecLong == InitLong /\ [][Next]_vars

(***************************************************************************)
(* seq_to_flow                                                             *)
(***************************************************************************)
\* "%d" % c: the decimal digits of c, one character each
RECURSIVE Digits(_)
Digits(c) == IF c < 10 THEN <<c>> ELSE Digits(c \div 10) \o <<c % 10>>

\* complete_flow[j] of complete_flow = floworder * len(seq), j from 0
CompleteFlow(floworder, j) == floworder[(j % Len(floworder)) + 1]

\* the inner while: c when the run of base b stops, i (from 0) the next base
RECURSIVE CountRun(_, _, _, _)
CountRun(seq, b, i, c) ==
    IF i < Len(seq) /\ seq[i + 1] = b THEN CountRun(seq, b, i + 1, c + 1) ELSE c

\* the outer while: the characters added to mask from i, j (both from 0) on
RECURSIVE Mask(_, _, _, _)
Mask(seq, floworder, i, j) ==
    IF ~(j < Len(floworder) * Len(seq) /\ i < Len(seq)) THEN <<>>
    ELSE IF CompleteFlow(floworder, j) = seq[i + 1]
    THEN LET c == CountRun(seq, seq[i + 1], i + 1, 1)
         IN  Digits(c) \o (IF i + c >= Len(seq) THEN <<>>
                           ELSE Mask(seq, floworder, i + c, j + 1))
    ELSE <<0>> \o Mask(seq, floworder, i, j + 1)

\* mask padded to a multiple of the floworder length
PadMask(mask, floworder) ==
    IF Len(mask) % Len(floworder) # 0
    THEN mask \o Repeat(0, Len(floworder) - (Len(mask) % Len(floworder)))
    ELSE mask

\* the list map(float, mask) handed to Flowgram: one float per character
seq_to_flow(seq, floworder) ==
    IF \E k \in DOMAIN seq : seq[k] = "N" THEN Raised("ValueError")
    ELSE [kind |-> "list",
          val  |-> Map(LAMBDA d : d * Scale,
                       PadMask(Mask(seq, floworder, 0, 0), floworder))]

MaxRun == 10

MaxRuns == 2

\* the sequences of up to MaxRuns runs of 1 to MaxRun equal bases
RECURSIVE RunSeqs(_)
RunSeqs(n) ==
    IF n = 0 THEN {<<>>}
    ELSE LET shorter == RunSeqs(n - 1)
         IN  shorter \cup
             {s \o Repeat(b, k) :
                s \in shorter, b \in {"T", "A", "C", "G"}, k \in 1..MaxRun}

InitSeq ==
    /\ input \in {[seq |-> s] : s \in RunSeqs(MaxRuns)}
    /\ heap = <<>>
    /\ lists = <<>>
    /\ last = NoCall

SeqToFlow ==
    /\ heap = <<>>
    /\ LET r == seq_to_flow(input.seq, DEFAULT_FLOWORDER)
       IN  IF r.kind = "raise" THEN UNCHANGED vars
           ELSE /\ heap' = <<Flowgram(r, DEFAULT_FLOWORDER, <<>>, 1)>>
                /\ lists' = <<InitSignal(InitText(r))>>
                /\ last' = [op |-> "seq_to_flow", recv |-> 0, arg |-> input.seq,
                            ret |-> "obj", ref |-> 1, val |-> <<>>]
                /\ UNCHANGED input

NextSeq ==
    \/ SeqToFlow
    \/ \E i \in DOMAIN heap : \E b \in BOOLEAN, t \in BOOLEAN : ToSequence(i, b, t)

SpecSeq == InitSeq /\ [][NextSeq]_vars

(***************************************************************************)
(* _ave: an absent signal (None) is <<>>, a present one <<s>>; a returned  *)
(* number is the fraction <<numerator, denominator>> of hundredths.        *)
(***************************************************************************)
None == <<>>

_ave(s1, s2, weight) ==
    IF s1 # None /\ s2 # None
    THEN [kind |-> "return", val |-> <<(s1[1] * weight) + s2[1], weight + 1>>]
    ELSE IF s1 = None
    THEN [kind |-> "return", val |-> IF s2 = None THEN None ELSE <<s2[1], 1>>]
    ELSE IF s2 = None
    THEN [kind |-> "return", val |-> <<s1[1], 1>>]
    ELSE Raised("ValueError")

MaxWeight == 4

Absent == {None} \cup {<<s>> : s \in SignalVals}

InitAve ==
    /\ input \in [s1 : Absent, s2 : Absent, weight : 1..MaxWeight]
    /\ heap = <<>>
    /\ lists = <<>>
    /\ last = NoCall

Ave ==
    /\ last.op = "none"
    /\ LET r == _ave(input.s1, input.s2, input.weight)
       IN  IF r.kind = "raise" THEN UNCHANGED vars
           ELSE /\ last' = [op |-> "_ave", recv |-> 0,
                            arg |-> <<input.s1, input.s2, input.weight>>,
                            ret |-> IF r.val = None THEN "none" ELSE "number",
                            ref |-> 0, val |-> r.val]
                /\ UNCHANGED <<heap, lists, input>>

NextAve == Ave

SpecAve == InitAve /\ [][NextAve]_vars

(***************************************************************************)
(* Properties.                                                             *)
(***************************************************************************)
\* what a caller reads of object o: its signal list, its text form and every
\* attribute (Flow Indexes, Quality Scores, Bases, # of Bases, the clips)
View(o, L) == [flowgram |-> L[o.flowgram], text |-> o.text, attrs |-> o.attrs]

\* the signal list of object i
Signal(i) == lists[heap[i].flowgram]

\* the first object as the constructor made it
Constructed == Flowgram(input.flowgram, DEFAULT_FLOWORDER, input.header_info, 1)

Supplied(name) ==
    input.header_info # <<>> /\ name \in DOMAIN input.header_info[1]

\* pos of a primer trim of o: Flow Indexes[len(primer) - 1]; 0 when the field
\* or the entry is missing
BoundaryPos(o, primerseq) ==
    IF ~HasAttr(o, "Flow Indexes") THEN 0
    ELSE LET fi == ParseIndexes(GetAttr(o, "Flow Indexes"))
         IN  IF Len(primerseq) \in DOMAIN fi THEN fi[Len(primerseq)] ELSE 0

\* the primer trim of o reads the signal of a flow of o
HasBoundary(o, L, primerseq) ==
    primerseq # <<>> /\ BoundaryPos(o, primerseq) \in DOMAIN L[o.flowgram]

BoundarySignal(o, L, primerseq) == L[o.flowgram][BoundaryPos(o, primerseq)]

\* C1: a quality trim or a primer trim changes no object that exists when it
\* is called: the receiver, and every object trimmed before, keep their
\* signal list, text form, Bases and metadata fields, whatever is returned
C1_ReceiverUnchanged ==
    [][\A i \in DOMAIN heap : View(heap'[i], lists') = View(heap[i], lists)]_vars

\* a copy that shared the signal list of the first object was given a list
\* of its own by a further trim
C1_Witness ==
    /\ last.ret = "obj"
    /\ last.recv > 1
    /\ heap[last.recv].flowgram = heap[1].flowgram
    /\ heap[last.ref].flowgram # heap[1].flowgram
    /\ Signal(last.ref) # Signal(1)

\* C4: len(flowgram) is the number of whitespace-delimited tokens of the text
\* form, for the constructed object and for every copy a trim returned
C4_LenIsTokenCount ==
    \A i \in DOMAIN heap : Len(Signal(i)) = Len(WsSplit(heap[i].text))

\* a primer trim of a trimmed copy returned a flowgram that is not empty
C4_Witness ==
    /\ last.op = "primer"
    /\ last.ret = "obj"
    /\ last.recv > 1
    /\ Len(Signal(last.ref)) > 0
    /\ Len(Signal(last.ref)) # Len(Signal(1))

\* C8: a primer trim that reads the signal of flow pos returns None when that
\* signal is below 0.5 and a flowgram when it is 0.5 or more: so it is for
\* every primer and the object just constructed or returned (an object is
\* never changed afterwards), and so it was in the last call, whatever its
\* receiver
C8_NoneBelowHalf ==
    /\ last.ret \in {"init", "obj"} =>
          \A p \in Primers :
             HasBoundary(heap[Len(heap)], lists, p) =>
                get_primer_trimmed_flowgram(heap[Len(heap)], lists, p).kind =
                   IF BoundarySignal(heap[Len(heap)], lists, p) < Half
                   THEN "none" ELSE "obj"
    /\ (last.op = "primer" /\ HasBoundary(heap[last.recv], lists, last.arg)) =>
          last.ret = IF BoundarySignal(heap[last.recv], lists, last.arg) < Half
                     THEN "none" ELSE "obj"

\* a primer trim returned None
C8_Witness ==
    /\ last.op = "primer"
    /\ last.ret = "none"
    /\ HasBoundary(heap[last.recv], lists, last.arg)
    /\ BoundarySignal(heap[last.recv], lists, last.arg) < Half

\* C2: the Bases field of an object constructed with a supplied Bases value
\* holds that value after every call
C2_SuppliedBasesKept ==
    Supplied("Bases") =>
        GetAttr(heap[1], "Bases") = input.header_info[1]["Bases"]

\* the entries of a tab-joined field
Entries(s) == SelectSeq(SplitTab(s), LAMBDA k : k # <<>>)

\* Flow Indexes, Quality Scores, Bases and # of Bases of o agree on n
AgreeOn(o, n) ==
    /\ \A name \in {"Flow Indexes", "Quality Scores", "Bases", "# of Bases"} :
          HasAttr(o, name)
    /\ Len(Entries(GetAttr(o, "Flow Indexes"))) = n
    /\ Len(Entries(GetAttr(o, "Quality Scores"))) = n
    /\ Len(GetAttr(o, "Bases")) = n
    /\ GetAttr(o, "# of Bases").n = n

BaseCount(o) == GetAttr(o, "# of Bases").n

\* C3: the copy a trim returns for a receiver whose four fields agree has
\* four fields that agree: on Clip Qual Right after a quality trim, on the
\* old count minus the primer length after a primer trim
C3_FieldsAgree ==
    (/\ last.ret = "obj"
     /\ HasAttr(heap[last.recv], "# of Bases")
     /\ AgreeOn(heap[last.recv], BaseCount(heap[last.recv]))
     /\ HasAttr(heap[last.recv], "Clip Qual Right"))
    => AgreeOn(heap[last.ref],
               IF last.op = "quality"
               THEN GetAttr(heap[last.recv], "Clip Qual Right").n
               ELSE BaseCount(heap[last.recv]) - Len(last.arg))

\* C5: a quality trim of the copy a quality trim returned succeeds and
\* returns a flowgram identical to that copy
C5_QualityTrimIdempotent ==
    (/\ last.op = "quality"
     /\ last.ret = "obj"
     /\ HasAttr(heap[last.recv], "Clip Qual Right")
     /\ HasAttr(heap[last.recv], "Flow Indexes"))
    => LET again == get_quality_trimmed_flowgram(heap[last.ref], lists)
       IN  /\ again.kind = "obj"
           /\ View(again.obj, again.lists) = View(heap[last.ref], lists)

\* C6: to_sequence(Bases=False, truncate=False) of seq_to_flow(s) returns s
C6_RoundTrip ==
    (last.op = "to_sequence" /\ last.arg = <<FALSE, FALSE>>) =>
        last.val = input.seq

\* C7: _ave called with both values absent returns nothing
C7_AveFailsFast ==
    ~(last.op = "_ave" /\ input.s1 = None /\ input.s2 = None)

\* C9: in the copy of a primer trim whose boundary signal is not 1.5, the
\* flows after flow pos are those of the receiver, each at an index congruent
\* modulo 4 to its index in the receiver
C9_PhaseKept ==
    (/\ last.op = "primer"
     /\ last.ret = "obj"
     /\ HasBoundary(heap[last.recv], lists, last.arg)
     /\ BoundarySignal(heap[last.recv], lists, last.arg) # OneAndHalf)
    => LET old == Signal(last.recv)
           new == Signal(last.ref)
           pos == BoundaryPos(heap[last.recv], last.arg)
           shift == Len(new) - Len(old)
       IN  /\ \A j \in (pos + 1)..Len(old) :
                 j + shift \in DOMAIN new /\ new[j + shift] = old[j]
           /\ shift % PadCycle = 0

\* C10: to_sequence of the quality-trimmed copy of the first object, which was
\* constructed without Bases, returns what it returns for the copy trimmed
\* from that object as constructed, before any call cached Bases in it
C10_MemoTransparent ==
    (/\ last.op = "quality"
     /\ last.ret = "obj"
     /\ last.recv = 1
     /\ ~Supplied("Bases")
     /\ HasAttr(heap[1], "Clip Qual Right")
     /\ HasAttr(heap[1], "Flow Indexes"))
    => LET direct == get_quality_trimmed_flowgram(Constructed, <<Signal(1)>>)
       IN  to_sequence(heap[last.ref], lists, TRUE, TRUE).ret =
           to_sequence(direct.obj, direct.lists, TRUE, TRUE).ret

====
